---- MODULE Spec2Model ----
(***************************************************************************)
(* SODERBOT: crawl + hybrid retrieval (chatbot-server).                    *)
(*                                                                         *)
(* The server is one JavaScript event loop.  An async function runs        *)
(* without interruption up to its next `await` of an external call (site-  *)
(* map fetch, page fetch, embedding request); every action below is one    *)
(* such uninterrupted run.  KB, VOCAB_IDF and CHUNK_TF are the module-     *)
(* level bindings shared by every crawl() and every retrieveContext().     *)
(*                                                                         *)
(* Texts are strings.  Real numbers are fixed point with SCALE units per   *)
(* 1.0.  The numeric program constants are scaled down together so that    *)
(* several chunks per page, several embedding batches per crawl and a      *)
(* full context budget occur with short texts; each one names its value    *)
(* in the source.                                                          *)
(***************************************************************************)
EXTENDS Integers, Sequences, FiniteSets, TLC

VARIABLES KB, VOCAB_IDF, CHUNK_TF, crawl, query, listening, call

vars == <<KB, VOCAB_IDF, CHUNK_TF, crawl, query, listening, call>>

\* the server's own state; call is one application of a function of the
\* program to arguments of its whole domain, outside any request
server == <<KB, VOCAB_IDF, CHUNK_TF, crawl, query, listening>>

(* ------------------------------ constants ------------------------------ *)

SITE == "https://www.sodermanaudiovisual.com"
\* 120 in the source
MAX_PAGES == 2
\* 800 in the source
CHUNK_SIZE == 6
\* 180 in the source
MIN_DOC_CHARS == 8
\* 9000 in the source
MAX_CONTEXT == 115
\* 12 in the source
TOP_K == 4
\* 96 in the source
BATCH_EMBED == 2

\* number of POST /reindex requests served
MaxReindex == 2
\* number of POST /chat requests being served at a time
MaxChat == 1

\* fixed-point units per 1.0
SCALE == 10 * 100

(* ------------------------------- strings ------------------------------- *)

Min(a, b) == IF a <= b THEN a ELSE b

CharAt(s, i) == SubSeq(s, i, i)

CharsOf(s) == {CharAt(s, i) : i \in 1..Len(s)}

UpperChars == "ABCDEFGHIJKLMNOPQRSTUVWXYZÄÖÅÆØ"
LowerChars == "abcdefghijklmnopqrstuvwxyzäöåæø"

LowerOf == [ch \in CharsOf(UpperChars) |->
              CharAt(LowerChars, CHOOSE i \in 1..Len(UpperChars) : CharAt(UpperChars, i) = ch)]

\* String.prototype.toLowerCase, one character
lowerChar(ch) == IF ch \in DOMAIN LowerOf THEN LowerOf[ch] ELSE ch

RECURSIVE toLowerCase(_)
toLowerCase(s) ==
    IF s = "" THEN ""
    ELSE lowerChar(CharAt(s, 1)) \o toLowerCase(SubSeq(s, 2, Len(s)))

\* the class [a-z0-9äöåæø] of tokenize's split pattern (flag i; the text is
\* lower-cased before the split)
TokenChars == CharsOf("abcdefghijklmnopqrstuvwxyz0123456789äöåæø")

\* the regular expression class \w, which decides \b
WordChars == CharsOf("abcdefghijklmnopqrstuvwxyzABCDEFGHIJKLMNOPQRSTUVWXYZ0123456789_")

(* -------------------------------- utils -------------------------------- *)

RECURSIVE chunkFrom(_, _, _)
chunkFrom(s, n, i) ==
    IF i < Len(s)
    THEN <<SubSeq(s, i + 1, Min(i + n, Len(s)))>> \o chunkFrom(s, n, i + n)
    ELSE <<>>

\* chunkText keeping only the full slices
chunkTextDropsTail(s, n) == [k \in 1..(Len(s) \div n) |-> SubSeq(s, (k - 1) * n + 1, k * n)]

\* for(let i=0;i<s.length;i+=n) out.push(s.slice(i,i+n))
chunkText(s, n) == chunkFrom(s, n, 0)

\* s.split(/[^a-z0-9äöåæø]+/i): the pieces between separator runs, the empty
\* leading/trailing pieces included; cur is the piece being read
RECURSIVE splitFrom(_, _, _)
splitFrom(s, i, cur) ==
    IF i > Len(s) THEN <<cur>>
    ELSE IF CharAt(s, i) \in TokenChars
         THEN splitFrom(s, i + 1, cur \o CharAt(s, i))
         ELSE IF i > 1 /\ CharAt(s, i - 1) \notin TokenChars
              THEN splitFrom(s, i + 1, cur)
              ELSE <<cur>> \o splitFrom(s, i + 1, "")

KeepToken(w) == w # "" /\ Len(w) > 1

\* String(s).toLowerCase().split(...).filter(w => w && w.length > 1)
tokenize(s) == SelectSeq(splitFrom(toLowerCase(s), 1, ""), KeepToken)

RECURSIVE uniqueFrom(_, _)
uniqueFrom(arr, seen) ==
    IF arr = <<>> THEN <<>>
    ELSE IF Head(arr) \in seen
         THEN uniqueFrom(Tail(arr), seen)
         ELSE <<Head(arr)>> \o uniqueFrom(Tail(arr), seen \cup {Head(arr)})

\* Array.from(new Set(a)): first occurrences, in order
unique(a) == uniqueFrom(a, {})

Range(seq) == {seq[i] : i \in 1..Len(seq)}

(* ------------------------------- numbers ------------------------------- *)

RECURSIVE isqrtIn(_, _, _)
isqrtIn(n, lo, hi) ==
    IF lo >= hi THEN lo
    ELSE LET mid == (lo + hi + 1) \div 2
         IN IF mid * mid <= n THEN isqrtIn(n, mid, hi) ELSE isqrtIn(n, lo, mid - 1)

\* floor of the square root (Math.sqrt, to the fixed-point unit)
ISqrt(n) == isqrtIn(n, 0, Min(n, 46340))

RECURSIVE Dot(_, _, _)
Dot(a, b, i) == IF i > Len(a) THEN 0 ELSE a[i] * b[i] + Dot(a, b, i + 1)

\* dot/(sqrt(na)*sqrt(nb)), 0 when either norm is 0; in SCALE units
cosine(a, b) ==
    LET dot == Dot(a, b, 1)
        na  == Dot(a, a, 1)
        nb  == Dot(b, b, 1)
    IN IF na = 0 \/ nb = 0 THEN 0
       ELSE (dot * SCALE * SCALE) \div ISqrt(na * nb * SCALE * SCALE)

\* the series of Ln is summed with FINE units per 1.0
FINE == 10 * SCALE

RECURSIVE atanhSeries(_, _, _, _)
atanhSeries(term, z2, k, last) ==
    IF k > last THEN 0
    ELSE (term \div (2 * k + 1)) + atanhSeries((term * z2) \div FINE, z2, k + 1, last)

\* Math.log(num/den) for num >= den > 0, in SCALE units, rounded:
\* ln(x) = 2 atanh((x-1)/(x+1))
Ln(num, den) ==
    LET z == ((num - den) * FINE) \div (num + den)
    IN (2 * atanhSeries(z, (z * z) \div FINE, 0, 12) * SCALE + FINE \div 2) \div FINE

RECURSIVE tanhFrac(_, _, _)
tanhFrac(x2, k, last) ==
    IF k = last THEN (2 * k - 1) * SCALE
    ELSE (2 * k - 1) * SCALE + (x2 * SCALE) \div tanhFrac(x2, k + 1, last)

tanhPos(x) ==
    IF x >= 6 * SCALE THEN SCALE
    ELSE IF x = 0 THEN 0
    ELSE Min(SCALE, (x * SCALE) \div tanhFrac((x * x) \div SCALE, 1, 9))

\* Math.tanh(x) in SCALE units (Lambert's continued fraction; 1.0 to the
\* unit from 6.0 on; odd)
Tanh(x) == IF x >= 0 THEN tanhPos(x) ELSE 0 - tanhPos(0 - x)

(* --------------------------------- maps -------------------------------- *)

\* new Map()
EmptyMap == [k \in {} |-> 0]

\* m.set(k, v)
MapSet(m, k, v) == [x \in DOMAIN m \cup {k} |-> IF x = k THEN v ELSE m[x]]

\* m.get(k) || dflt
MapGet(m, k, dflt) == IF k \in DOMAIN m THEN m[k] ELSE dflt

(* -------------------------- external services -------------------------- *)

\* the messages of the POST /chat bodies
Messages == {"", "body"}

\* the POST /chat bodies: with a message, or without the property
Bodies == {[lang |-> "en"]} \cup {[message |-> m, lang |-> "en"] : m \in Messages}

\* req.body?.message || ""
messageOf(body) == IF "message" \in DOMAIN body THEN body.message ELSE ""

\* the last line of the system prompt: ctx ? "Knowledge:\n" + ctx : "Knowledge: (none yet)"
knowledgeLine(ctx) == IF ctx # "" THEN "Knowledge:\n" \o ctx ELSE "Knowledge: (none yet)"

CountChar(s, ch) == Cardinality({i \in 1..Len(s) : CharAt(s, i) = ch})

\* the embedding service: one fixed-length vector per text, the same text
\* always giving the same vector
Embed(t) ==
    LET l == toLowerCase(t)
    IN <<CountChar(l, "a"), CountChar(l, "b") - CountChar(l, "c"), Len(t) - 4>>

\* a chunk without the vec property
NoVec == <<>>

\* what a page's markup yields at the join of fetchPageStrong: the <title>
\* text, the description meta content and the stripped body text
SitePage(url) ==
    IF url = SITE THEN [title |-> "", meta |-> "", body |-> "ab cd"]
    ELSE IF url = SITE \o "/home" THEN [title |-> "", meta |-> "", body |-> "ab"]
    ELSE IF url = SITE \o "/services" THEN [title |-> "", meta |-> "", body |-> "cd cd ab"]
    ELSE [title |-> "", meta |-> "", body |-> "x"]

\* the outcomes of fetch(url): the request throws, a non-success status, a
\* page with next to no text, or the page
FetchOutcomes(url) ==
    { [kind |-> "throw"],
      [kind |-> "status", ok |-> FALSE, status |-> 500],
      [kind |-> "status", ok |-> TRUE, status |-> 200,
       page |-> [title |-> "", meta |-> "", body |-> "x"]],
      [kind |-> "status", ok |-> TRUE, status |-> 200, page |-> SitePage(url)] }

\* the outcomes of fetch(SITE + "/sitemap.xml"): the <loc> texts of the body
SitemapOutcomes ==
    { [kind |-> "throw"],
      [kind |-> "status", ok |-> FALSE, status |-> 404],
      [kind |-> "status", ok |-> TRUE, status |-> 200,
       locs |-> <<SITE \o "/fi/etusivu", SITE \o "/home/">>] }

(* ---------------------------- URL discovery ---------------------------- *)

StartsWith(s, p) == Len(s) >= Len(p) /\ SubSeq(s, 1, Len(p)) = p

Whitespace == {" ", "\n", "\t", "\r"}

RECURSIVE trimStart(_)
trimStart(s) ==
    IF s # "" /\ CharAt(s, 1) \in Whitespace THEN trimStart(SubSeq(s, 2, Len(s))) ELSE s

RECURSIVE trimEnd(_)
trimEnd(s) ==
    IF s # "" /\ CharAt(s, Len(s)) \in Whitespace THEN trimEnd(SubSeq(s, 1, Len(s) - 1)) ELSE s

\* String.prototype.trim
trim(s) == trimEnd(trimStart(s))

\* replace(/\/+$/, "")
RECURSIVE stripTrailingSlashes(_)
stripTrailingSlashes(s) ==
    IF s # "" /\ CharAt(s, Len(s)) = "/"
    THEN stripTrailingSlashes(SubSeq(s, 1, Len(s) - 1)) ELSE s

\* replace(/^\/+/, "")
RECURSIVE stripLeadingSlashes(_)
stripLeadingSlashes(s) ==
    IF s # "" /\ CharAt(s, 1) = "/"
    THEN stripLeadingSlashes(SubSeq(s, 2, Len(s))) ELSE s

SchemeOf(u) ==
    IF StartsWith(u, "https://") THEN "https://"
    ELSE IF StartsWith(u, "http://") THEN "http://"
    ELSE ""

\* new URL(u) throws on a string that is no absolute URL
IsUrl(u) == SchemeOf(u) # "" /\ Len(u) > Len(SchemeOf(u))

\* new URL(u).pathname: from the first "/" after the host, up to "?" or "#";
\* "/" when the URL has no path
Pathname(u) ==
    LET from  == Len(SchemeOf(u)) + 1
        slash == {i \in from..Len(u) : CharAt(u, i) = "/"}
        first == CHOOSE i \in slash : \A j \in slash : i <= j
        stops == {i \in first..Len(u) : CharAt(u, i) \in {"?", "#"}}
        last  == IF stops = {} THEN Len(u)
                 ELSE (CHOOSE i \in stops : \A j \in stops : i <= j) - 1
    IN IF slash = {} THEN "/" ELSE SubSeq(u, first, last)

\* the EN-only test
IsOtherLanguage(path) ==
    path = "fi" \/ StartsWith(path, "fi/") \/ path = "sv" \/ StartsWith(path, "sv/")

\* set.add(x) adding x once more
SetAddAgain(set, x) == Append(set, x)

\* set.add(x) on a Set kept in insertion order
SetAdd(set, x) == IF x \in Range(set) THEN set ELSE Append(set, x)

\* the while loop over the <loc> matches; new URL(u) throwing leaves the
\* loop through the catch with the entries added so far
RECURSIVE sitemapLoop(_, _)
sitemapLoop(locs, set) ==
    IF locs = <<>> THEN set
    ELSE LET u == stripTrailingSlashes(trim(Head(locs)))
         IN IF ~IsUrl(u) THEN set
            ELSE IF IsOtherLanguage(stripLeadingSlashes(Pathname(u)))
                 THEN sitemapLoop(Tail(locs), set)
                 ELSE sitemapLoop(Tail(locs),
                                  IF StartsWith(u, SITE) THEN SetAdd(set, u) ELSE set)

FallbackPaths ==
    <<"/", "/home", "/services", "/about-us", "/contact", "/references",
      "/get-a-quote", "/consultation">>

RECURSIVE addFallbacks(_, _)
addFallbacks(paths, set) ==
    IF paths = <<>> THEN set
    ELSE addFallbacks(Tail(paths), SetAdd(set, stripTrailingSlashes(SITE \o Head(paths))))

\* getSitemapUrls, given the outcome of the sitemap fetch and the value of
\* MAX_PAGES: Array.from(set).slice(0, maxPages)
sitemapUrlsUpTo(out, maxPages) ==
    LET fromMap == IF out.kind = "status" /\ out.ok
                   THEN sitemapLoop(out.locs, <<>>) ELSE <<>>
        set     == addFallbacks(FallbackPaths, fromMap)
    IN SubSeq(set, 1, Min(maxPages, Len(set)))

getSitemapUrls(out) == sitemapUrlsUpTo(out, MAX_PAGES)

\* the EN-only test of chatbot-server.prev.js:
\* path.startsWith("fi") || path === "fi" || path.startsWith("sv") || path === "sv"
IsOtherLanguagePrev(path) ==
    StartsWith(path, "fi") \/ path = "fi" \/ StartsWith(path, "sv") \/ path = "sv"

\* the while loop over the <loc> matches in chatbot-server.prev.js
RECURSIVE sitemapLoopPrev(_, _)
sitemapLoopPrev(locs, set) ==
    IF locs = <<>> THEN set
    ELSE LET u == stripTrailingSlashes(trim(Head(locs)))
         IN IF ~IsUrl(u) THEN set
            ELSE IF IsOtherLanguagePrev(stripLeadingSlashes(Pathname(u)))
                 THEN sitemapLoopPrev(Tail(locs), set)
                 ELSE sitemapLoopPrev(Tail(locs),
                                      IF StartsWith(u, SITE) THEN SetAdd(set, u) ELSE set)

\* getSitemapUrls of chatbot-server.prev.js
sitemapUrlsUpToPrev(out, maxPages) ==
    LET fromMap == IF out.kind = "status" /\ out.ok
                   THEN sitemapLoopPrev(out.locs, <<>>) ELSE <<>>
        set     == addFallbacks(FallbackPaths, fromMap)
    IN SubSeq(set, 1, Min(maxPages, Len(set)))

(* ------------------------------ page fetch ----------------------------- *)

\* fetchPageStrong returns null
NoDoc == ""

RECURSIVE joinParts(_, _)
joinParts(parts, sep) ==
    IF parts = <<>> THEN ""
    ELSE IF Len(parts) = 1 THEN parts[1]
    ELSE parts[1] \o sep \o joinParts(Tail(parts), sep)

NonEmpty(x) == x # ""

\* const doc = [title ? ..., meta ? ..., body ? ...].filter(Boolean).join("\n\n")
pageDoc(page) ==
    LET title == trim(page.title)
        meta  == trim(page.meta)
        body  == page.body
    IN joinParts(SelectSeq(<< IF title # "" THEN "TITLE: " \o title ELSE "",
                              IF meta # "" THEN "DESCRIPTION: " \o meta ELSE "",
                              IF body # "" THEN "BODY:\n" \o body ELSE "" >>,
                           NonEmpty),
                 "\n\n")

\* fetchPageStrong without the MIN_DOC_CHARS test
fetchPageStrongKeepsShort(out) ==
    IF out.kind = "throw" THEN NoDoc
    ELSE IF ~out.ok THEN NoDoc
    ELSE pageDoc(out.page)

\* fetchPageStrong, given the outcome of the page fetch
fetchPageStrong(out) ==
    IF out.kind = "throw" THEN NoDoc
    ELSE IF ~out.ok THEN NoDoc
    ELSE LET doc == pageDoc(out.page)
         IN IF doc # "" /\ Len(doc) >= MIN_DOC_CHARS THEN doc ELSE NoDoc

(* ----------------------------- sparse index ---------------------------- *)

\* the texts a crawl can meet: every chunk of every page the site serves
SiteUrls == UNION {Range(getSitemapUrls(out)) : out \in SitemapOutcomes}
SiteDocs == {fetchPageStrong(out) : out \in UNION {FetchOutcomes(u) : u \in SiteUrls}}
SiteChunks == UNION {Range(chunkText(doc, CHUNK_SIZE)) : doc \in SiteDocs \ {NoDoc}}

IsWordAt(s, i) == i >= 1 /\ i <= Len(s) /\ CharAt(s, i) \in WordChars

\* \b between the characters i-1 and i
BoundaryAt(s, i) == IsWordAt(s, i - 1) # IsWordAt(s, i)

MatchAt(s, t, i) ==
    /\ i + Len(t) - 1 <= Len(s)
    /\ toLowerCase(SubSeq(s, i, i + Len(t) - 1)) = t
    /\ BoundaryAt(s, i)
    /\ BoundaryAt(s, i + Len(t))

RECURSIVE countFrom(_, _, _)
countFrom(s, t, i) ==
    IF i > Len(s) THEN 0
    ELSE IF MatchAt(s, t, i) THEN 1 + countFrom(s, t, i + Len(t))
    ELSE countFrom(s, t, i + 1)

\* (chunk.match(new RegExp("\\b" + t + "\\b", "gi")) || []).length
countMatches(chunk, t) == countFrom(chunk, t, 1)

\* the tf Map of one chunk: count || 1 for each of its terms
termFreq(chunk) ==
    [t \in Range(unique(tokenize(chunk))) |->
        IF countMatches(chunk, t) = 0 THEN 1 ELSE countMatches(chunk, t)]

\* termFreq, tabulated over the site's chunks
tfOf == [chunk \in SiteChunks |-> termFreq(chunk)]

\* CHUNK_TF.set(d.id, tf) for every d of KB, in order
RECURSIVE setChunkTf(_, _, _)
setChunkTf(ctf, kb, i) ==
    IF i > Len(kb) THEN ctf
    ELSE setChunkTf(MapSet(ctf, kb[i].id, tfOf[kb[i].chunk]), kb, i + 1)

\* df.get(t): the number of chunks of KB among whose terms t is
docFreq(kb, t) == Cardinality({i \in 1..Len(kb) : t \in DOMAIN tfOf[kb[i].chunk]})

\* Math.log((N + 1) / (dfVal + 0.5))
idfOf(N, dfVal) == Ln(2 * (N + 1), 2 * dfVal + 1)

\* the largest number of chunks KB gets: every crawl pushing the chunks of
\* MAX_PAGES pages of the longest document
LongestDoc == CHOOSE d \in SiteDocs : \A e \in SiteDocs : Len(e) <= Len(d)
ChunksMost == (MaxReindex + 1) * MAX_PAGES * Len(chunkText(LongestDoc, CHUNK_SIZE))

\* idfOf, tabulated
idfTab == [N \in 1..ChunksMost |-> [dfVal \in 1..N |-> idfOf(N, dfVal)]]

\* VOCAB_IDF.set(t, idf) for every term of df
setVocabIdf(idf, kb) ==
    LET N     == IF Len(kb) = 0 THEN 1 ELSE Len(kb)
        terms == UNION {DOMAIN tfOf[kb[i].chunk] : i \in 1..Len(kb)}
    IN [t \in DOMAIN idf \cup terms |->
          IF t \in terms THEN idfTab[N][docFreq(kb, t)] ELSE idf[t]]

(* ------------------------------ embedding ------------------------------ *)

\* the forEach storing only the first vector of the answer
assignVecsFirstOnly(kb, start, data) ==
    [j \in 1..Len(kb) |->
        IF j = start + 1 /\ Len(data) > 0
        THEN [kb[j] EXCEPT !.vec = data[1]]
        ELSE kb[j]]

\* resp.data.forEach((e,i) => KB[start+i].vec = e.embedding): the entries
\* below KB.length are assigned before KB[start+i] is undefined and the
\* assignment throws
assignVecs(kb, start, data) ==
    [j \in 1..Len(kb) |->
        IF j > start /\ j <= start + Len(data)
        THEN [kb[j] EXCEPT !.vec = data[j - start]]
        ELSE kb[j]]

\* texts.slice(start, start + BATCH_EMBED)
batchOf(texts, start) == SubSeq(texts, start + 1, Min(start + BATCH_EMBED, Len(texts)))

\* Embed, tabulated over the texts sent to the service
embedOf == [t \in SiteChunks \cup Messages |-> Embed(t)]

\* the service's answer to a batch: one vector per input, in input order
embeddingsOf(batch) == [i \in 1..Len(batch) |-> embedOf[batch[i]]]

(* ------------------------------ retrieval ------------------------------ *)

\* the addend with the saturating denominator left out
termContributionUnsaturated(w, f) == [num |-> w * 120 * f, den |-> 125]

\* idf * (1.2 * f) / (1 + 0.25 + f), exactly, as a fraction of SCALE units:
\* w is the idf in SCALE units, f the term's frequency in the chunk
termContribution(w, f) == [num |-> w * 120 * f, den |-> 125 + 100 * f]

\* sparse += idf * (1.2 * f) / (1 + 0.25 + f) over the query's terms
RECURSIVE sparseOf(_, _, _, _)
sparseOf(terms, tf, idf, i) ==
    IF i > Len(terms) THEN 0
    ELSE LET f  == MapGet(tf, terms[i], 0)
             w  == MapGet(idf, terms[i], 0)
             c  == termContribution(w, f)
         IN c.num \div c.den + sparseOf(terms, tf, idf, i + 1)

\* let sparse = 0; const tf = CHUNK_TF.get(d.id); if (tf) { ... }
sparseIn(d, terms, ctf, idf) ==
    IF d.id \in DOMAIN ctf THEN sparseOf(terms, ctf[d.id], idf, 1) ELSE 0

\* 0.7 * dense + 0.3 * Math.tanh(sparse), in units of 1/(10 * SCALE)
scoreOf(d, qv, terms, ctf, idf) ==
    LET dense  == IF d.vec # NoVec THEN cosine(qv, d.vec) ELSE 0
        sparse == sparseIn(d, terms, ctf, idf)
    IN 7 * dense + 3 * Tanh(sparse)

\* for (const d of KB) { ... if (score > 0) scored.push({d, score}) }
RECURSIVE scoreAll(_, _, _, _, _, _)
scoreAll(kb, qv, terms, ctf, idf, i) ==
    IF i > Len(kb) THEN <<>>
    ELSE LET sc == scoreOf(kb[i], qv, terms, ctf, idf)
         IN (IF sc > 0 THEN <<[d |-> kb[i], score |-> sc]>> ELSE <<>>)
            \o scoreAll(kb, qv, terms, ctf, idf, i + 1)

\* the place of e in a list sorted by (a, b) => b.score - a.score: behind
\* every entry that does not score lower (Array.prototype.sort is stable)
insertByScore(sorted, e) ==
    LET k == Cardinality({i \in 1..Len(sorted) : sorted[i].score >= e.score})
    IN SubSeq(sorted, 1, k) \o <<e>> \o SubSeq(sorted, k + 1, Len(sorted))

RECURSIVE sortFrom(_, _, _)
sortFrom(seq, i, sorted) ==
    IF i > Len(seq) THEN sorted
    ELSE sortFrom(seq, i + 1, insertByScore(sorted, seq[i]))

\* scored.sort((a, b) => b.score - a.score)
sortByScore(scored) == sortFrom(scored, 1, <<>>)

\* the whole scored list instead of its slice
topKAll(scored) == scored

\* scored.slice(0, TOP_K)
topK(scored) == SubSeq(scored, 1, Min(TOP_K, Len(scored)))

\* "[Source] " + d.url + "\n" + d.chunk + "\n\n"
sourceEntry(d) == "[Source] " \o d.url \o "\n" \o d.chunk \o "\n\n"

\* the loop with `continue` in place of `break`: a candidate over the budget
\* is skipped and the lower-ranked ones are still tried
RECURSIVE contextLoopSkips(_, _, _)
contextLoopSkips(top, i, ctx) ==
    IF i > Len(top) THEN ctx
    ELSE IF Len(ctx) + Len(top[i].d.chunk) > MAX_CONTEXT
         THEN contextLoopSkips(top, i + 1, ctx)
    ELSE contextLoopSkips(top, i + 1, ctx \o sourceEntry(top[i].d))

\* for (const {d} of top) { if (ctx.length + d.chunk.length > MAX_CONTEXT) break; ctx += ... }
RECURSIVE contextLoop(_, _, _)
contextLoop(top, i, ctx) ==
    IF i > Len(top) THEN ctx
    ELSE IF Len(ctx) + Len(top[i].d.chunk) > MAX_CONTEXT THEN ctx
    ELSE contextLoop(top, i + 1, ctx \o sourceEntry(top[i].d))

\* unique(tokenize(query)), tabulated over the messages
termsOf == [msg \in Messages |-> unique(tokenize(msg))]

\* the scored list of retrieveContext after the sort
rankedFor(msg, kb, ctf, idf) ==
    sortByScore(scoreAll(kb, embedOf[msg], termsOf[msg], ctf, idf, 1))

(* -------------------------------- state -------------------------------- *)

\* crawl 0 is the one main() starts; the others are started by POST /reindex
Main == 0
Crawls == 0..MaxReindex
Chats == 1..MaxChat

\* a crawl() that is not running: pc is "idle", "done" or "failed".  Of a
\* running one: urls, i (the page awaited), id (idCounter), texts and start
\* (embedAllChunks).
NoCrawl(pc) ==
    [pc |-> pc, urls |-> <<>>, i |-> 0, id |-> 0, texts |-> <<>>, start |-> 0]

\* a POST /chat: pc is "idle", "embedding" (retrieveContext awaits the query
\* vector), "generating" (the completion is awaited) or "done" (replied; the
\* next request takes its place).  knowledge
\* is the last line of the system prompt sent with the completion request.
\* epoch is history: the number of crawls started when the request arrived,
\* -1 when one was running.
NoChat ==
    [pc |-> "idle", msg |-> "", epoch |-> 0, scored |-> <<>>, ctx |-> "",
     knowledge |-> "", reply |-> ""]

Running == {c \in Crawls : crawl[c].pc \in {"sitemap", "fetch", "embed"}}
Started == Cardinality({c \in Crawls : crawl[c].pc # "idle"})

\* no function applied on its own
NoCall == [fn |-> "", args |-> <<>>, ret |-> FALSE, out |-> <<>>]

\* InitServer with main() calling app.listen before its crawl()
InitServerListensFirst ==
    /\ KB = <<>>
    /\ VOCAB_IDF = EmptyMap
    /\ CHUNK_TF = EmptyMap
    /\ crawl = [c \in Crawls |-> IF c = Main THEN NoCrawl("sitemap") ELSE NoCrawl("idle")]
    /\ query = [q \in Chats |-> NoChat]
    /\ listening = TRUE

\* module load, then main() up to the await inside its crawl()
InitServer ==
    /\ KB = <<>>
    /\ VOCAB_IDF = EmptyMap
    /\ CHUNK_TF = EmptyMap
    /\ crawl = [c \in Crawls |-> IF c = Main THEN NoCrawl("sitemap") ELSE NoCrawl("idle")]
    /\ query = [q \in Chats |-> NoChat]
    /\ listening = FALSE

Init == InitServer /\ call = NoCall

(* -------------------------------- crawl -------------------------------- *)

\* CrawlEnds with main() not catching: a startup crawl that throws ends
\* main() before app.listen
CrawlEndsUncaught(c, pc) ==
    /\ crawl' = [crawl EXCEPT ![c] = NoCrawl(pc)]
    /\ listening' = (listening \/ (c = Main /\ pc = "done"))

\* crawl() returns, or throws into the catch of its caller; main() then
\* calls app.listen
CrawlEnds(c, pc) ==
    /\ crawl' = [crawl EXCEPT ![c] = NoCrawl(pc)]
    /\ listening' = (listening \/ c = Main)

\* the sparse index over kb, then embedAllChunks up to its first await
IndexAndEmbed(c, kb) ==
    /\ CHUNK_TF' = setChunkTf(CHUNK_TF, kb, 1)
    /\ VOCAB_IDF' = setVocabIdf(VOCAB_IDF, kb)
    /\ IF Len(kb) > 0
       THEN /\ crawl' = [crawl EXCEPT ![c].pc = "embed",
                                      ![c].texts = [j \in 1..Len(kb) |-> kb[j].chunk],
                                      ![c].start = 0]
            /\ UNCHANGED listening
       ELSE CrawlEnds(c, "done")

\* POST /reindex: the reply, then crawl() up to the sitemap fetch
Reindex(c) ==
    /\ listening
    /\ crawl[c].pc = "idle"
    /\ \A b \in 1..(c - 1) : crawl[b].pc # "idle"
    /\ KB' = <<>>
    /\ VOCAB_IDF' = EmptyMap
    /\ CHUNK_TF' = EmptyMap
    /\ crawl' = [crawl EXCEPT ![c] = NoCrawl("sitemap")]
    /\ UNCHANGED <<query, listening, call>>

\* getSitemapUrls, tabulated over the outcomes of the sitemap fetch
urlsOf == [out \in SitemapOutcomes |-> getSitemapUrls(out)]

\* the sitemap fetch settles: the rest of getSitemapUrls, then the page loop
\* up to its first fetch
SitemapReturns(c) ==
    /\ crawl[c].pc = "sitemap"
    /\ \E out \in SitemapOutcomes :
         LET urls == urlsOf[out]
         IN IF urls # <<>>
            THEN /\ crawl' = [crawl EXCEPT ![c].pc = "fetch", ![c].urls = urls,
                                           ![c].i = 1, ![c].id = 0]
                 /\ UNCHANGED <<KB, VOCAB_IDF, CHUNK_TF, listening>>
            ELSE /\ IndexAndEmbed(c, KB)
                 /\ UNCHANGED KB
    /\ UNCHANGED <<query, call>>

\* the chunks of one page, pushed with the crawl's next identifiers
pushPieces(kb, url, pieces, id) ==
    kb \o [k \in 1..Len(pieces) |->
             [id |-> id + k - 1, url |-> url, lang |-> "en", chunk |-> pieces[k],
              vec |-> NoVec]]

\* a page fetch settles: the rest of fetchPageStrong and of the loop body,
\* then the next fetch or, after the last page, the index and the first
\* embedding request
PageReturnsWith(c, out) ==
    /\ crawl[c].pc = "fetch"
    /\ LET r      == crawl[c]
           doc    == fetchPageStrong(out)
           pieces == IF doc = NoDoc THEN <<>> ELSE chunkText(doc, CHUNK_SIZE)
           kb     == pushPieces(KB, r.urls[r.i], pieces, r.id)
       IN /\ KB' = kb
          /\ IF r.i < Len(r.urls)
             THEN /\ crawl' = [crawl EXCEPT ![c].i = r.i + 1,
                                            ![c].id = r.id + Len(pieces)]
                  /\ UNCHANGED <<VOCAB_IDF, CHUNK_TF, listening>>
             ELSE IndexAndEmbed(c, kb)
    /\ UNCHANGED <<query, call>>

PageReturns(c) ==
    /\ crawl[c].pc = "fetch"
    /\ \E out \in FetchOutcomes(crawl[c].urls[crawl[c].i]) : PageReturnsWith(c, out)

\* EmbedReturns with `start += 2 * BATCH_EMBED`: every other batch is skipped
EmbedReturnsSkipsBatch(c) ==
    /\ crawl[c].pc = "embed"
    /\ LET r    == crawl[c]
           data == embeddingsOf(batchOf(r.texts, r.start))
       IN /\ KB' = assignVecs(KB, r.start, data)
          /\ IF r.start + Len(data) > Len(KB)
             THEN CrawlEnds(c, "failed")
             ELSE IF r.start + 2 * BATCH_EMBED < Len(r.texts)
                  THEN /\ crawl' = [crawl EXCEPT ![c].start = r.start + 2 * BATCH_EMBED]
                       /\ UNCHANGED listening
                  ELSE CrawlEnds(c, "done")
    /\ UNCHANGED <<VOCAB_IDF, CHUNK_TF, query, call>>

\* an embedding request of embedAllChunks settles with the vectors
EmbedReturns(c) ==
    /\ crawl[c].pc = "embed"
    /\ LET r    == crawl[c]
           data == embeddingsOf(batchOf(r.texts, r.start))
       IN /\ KB' = assignVecs(KB, r.start, data)
          /\ IF r.start + Len(data) > Len(KB)
             THEN CrawlEnds(c, "failed")
             ELSE IF r.start + BATCH_EMBED < Len(r.texts)
                  THEN /\ crawl' = [crawl EXCEPT ![c].start = r.start + BATCH_EMBED]
                       /\ UNCHANGED listening
                  ELSE CrawlEnds(c, "done")
    /\ UNCHANGED <<VOCAB_IDF, CHUNK_TF, query, call>>

\* an embedding request of embedAllChunks throws
EmbedThrows(c) ==
    /\ crawl[c].pc = "embed"
    /\ CrawlEnds(c, "failed")
    /\ UNCHANGED <<KB, VOCAB_IDF, CHUNK_TF, query, call>>

(* --------------------------------- chat -------------------------------- *)

\* GET /kb-status
kbStatus ==
    [chunks   |-> Len(KB),
     embedded |-> Cardinality({j \in 1..Len(KB) : KB[j].vec # NoVec}),
     vocab    |-> Cardinality(DOMAIN VOCAB_IDF)]

\* ChatWith without `if(!msg) return ...`
ChatWithNoMessageTest(q, body) ==
    /\ listening
    /\ query[q].pc \in {"idle", "done"}
    /\ LET arrived == [NoChat EXCEPT !.msg = messageOf(body),
                                     !.epoch = IF Running = {} THEN Started ELSE -1]
       IN query' = [query EXCEPT ![q] =
            IF Len(KB) = 0
            THEN [arrived EXCEPT !.pc = "generating", !.knowledge = knowledgeLine("")]
            ELSE [arrived EXCEPT !.pc = "embedding"]]
    /\ UNCHANGED <<KB, VOCAB_IDF, CHUNK_TF, crawl, listening, call>>

\* ChatWith without `if(!KB.length) return ""`
ChatWithNoEmptyTest(q, body) ==
    /\ listening
    /\ query[q].pc \in {"idle", "done"}
    /\ LET arrived == [NoChat EXCEPT !.msg = messageOf(body),
                                     !.epoch = IF Running = {} THEN Started ELSE -1]
       IN query' = [query EXCEPT ![q] =
            IF messageOf(body) = ""
            THEN [NoChat EXCEPT !.pc = "done", !.reply = "Please type a message."]
            ELSE [arrived EXCEPT !.pc = "embedding"]]
    /\ UNCHANGED <<KB, VOCAB_IDF, CHUNK_TF, crawl, listening, call>>

\* POST /chat with the given body, up to its first await: the reply to an
\* empty message, or retrieveContext up to its return on an empty KB and the
\* completion request, or retrieveContext up to its embedding request
ChatWith(q, body) ==
    /\ listening
    /\ query[q].pc \in {"idle", "done"}
    /\ LET arrived == [NoChat EXCEPT !.msg = messageOf(body),
                                     !.epoch = IF Running = {} THEN Started ELSE -1]
       IN query' = [query EXCEPT ![q] =
            IF messageOf(body) = ""
            THEN [NoChat EXCEPT !.pc = "done", !.reply = "Please type a message."]
            ELSE IF Len(KB) = 0
                 THEN [arrived EXCEPT !.pc = "generating", !.knowledge = knowledgeLine("")]
                 ELSE [arrived EXCEPT !.pc = "embedding"]]
    /\ UNCHANGED <<KB, VOCAB_IDF, CHUNK_TF, crawl, listening, call>>

Chat(q) == \E body \in Bodies : ChatWith(q, body)

\* Retrieve sorting KB itself instead of the scored copy
RetrieveSortsKB(q) ==
    /\ query[q].pc = "embedding"
    /\ LET scored == rankedFor(query[q].msg, KB, CHUNK_TF, VOCAB_IDF)
       IN /\ query' = [query EXCEPT
                          ![q].pc = "generating",
                          ![q].scored = scored,
                          ![q].ctx = contextLoop(topK(scored), 1, ""),
                          ![q].knowledge = knowledgeLine(contextLoop(topK(scored), 1, ""))]
          /\ KB' = [j \in 1..Len(scored) |-> scored[j].d]
    /\ UNCHANGED <<VOCAB_IDF, CHUNK_TF, crawl, listening, call>>

\* the query's embedding settles; the scan of KB; the completion request
Retrieve(q) ==
    /\ query[q].pc = "embedding"
    /\ LET scored == rankedFor(query[q].msg, KB, CHUNK_TF, VOCAB_IDF)
       IN query' = [query EXCEPT
                       ![q].pc = "generating",
                       ![q].scored = scored,
                       ![q].ctx = contextLoop(topK(scored), 1, ""),
                       ![q].knowledge = knowledgeLine(contextLoop(topK(scored), 1, ""))]
    /\ UNCHANGED <<KB, VOCAB_IDF, CHUNK_TF, crawl, listening, call>>

\* the query's embedding throws: the handler's catch replies
RetrieveThrows(q) ==
    /\ query[q].pc = "embedding"
    /\ query' = [query EXCEPT ![q] = [NoChat EXCEPT !.pc = "done", !.reply = "Error"]]
    /\ UNCHANGED <<KB, VOCAB_IDF, CHUNK_TF, crawl, listening, call>>

\* the completion settles (with an answer, or throwing into the catch)
Generated(q) ==
    /\ query[q].pc = "generating"
    /\ \E reply \in {"answer", "Error"} :
         query' = [query EXCEPT ![q] = [NoChat EXCEPT !.pc = "done", !.reply = reply]]
    /\ UNCHANGED <<KB, VOCAB_IDF, CHUNK_TF, crawl, listening, call>>

(* ----------------------------- specification --------------------------- *)

Next ==
    \/ \E c \in Crawls \ {Main} : Reindex(c)
    \/ \E c \in Crawls : SitemapReturns(c)
    \/ \E c \in Crawls : PageReturns(c)
    \/ \E c \in Crawls : EmbedReturns(c)
    \/ \E c \in Crawls : EmbedThrows(c)
    \/ \E q \in Chats : Chat(q)
    \/ \E q \in Chats : Retrieve(q)
    \/ \E q \in Chats : RetrieveThrows(q)
    \/ \E q \in Chats : Generated(q)

Spec == Init /\ [][Next]_vars

\* every external call of a crawl (sitemap fetch, page fetch, embedding
\* request) eventually returns or fails
EveryCallSettles ==
    \A c \in Crawls :
      WF_vars(SitemapReturns(c) \/ PageReturns(c) \/ EmbedReturns(c) \/ EmbedThrows(c))

\* the steps of the crawls alone: a POST /chat writes none of the variables
\* a crawl reads or writes
NextCrawls ==
    \/ \E c \in Crawls \ {Main} : Reindex(c)
    \/ \E c \in Crawls : SitemapReturns(c)
    \/ \E c \in Crawls : PageReturns(c)
    \/ \E c \in Crawls : EmbedReturns(c)
    \/ \E c \in Crawls : EmbedThrows(c)

SpecEveryCallSettles == Init /\ [][NextCrawls]_vars /\ EveryCallSettles

(* ------------------------- functions on their own ---------------------- *)

\* longest string and largest chunk size chunkText is applied to
MaxStrLen == 5
MaxChunkSize == 6

\* the strings over "a", "b" of length n
RECURSIVE StringsOfLen(_)
StringsOfLen(n) ==
    IF n = 0 THEN {""}
    ELSE {t \o ch : t \in StringsOfLen(n - 1), ch \in {"a", "b"}}

Strings == UNION {StringsOfLen(n) : n \in 0..MaxStrLen}

\* chunkText(s, n) is about to run on a string s and a positive size n
InitChunkText ==
    /\ InitServer
    /\ call \in {[fn |-> "chunkText", args |-> <<s, n>>, ret |-> FALSE, out |-> <<>>] :
                    s \in Strings, n \in 1..MaxChunkSize}

\* chunkText returns
ChunkTextReturns ==
    /\ call.fn = "chunkText" /\ ~call.ret
    /\ call' = [call EXCEPT !.ret = TRUE, !.out = chunkText(call.args[1], call.args[2])]
    /\ UNCHANGED server

NextChunkText == ChunkTextReturns

SpecChunkText == InitChunkText /\ [][NextChunkText]_vars

\* number of <loc> entries of a sitemap
MaxLocs == 3

\* <loc> texts: other-language pages, a fallback page with a trailing slash,
\* pages of the site (one inside white space), a page whose path only begins
\* like a language prefix, a page of another host, a text that is no URL
Locs ==
    { SITE \o "/fi/etusivu", SITE \o "/sv", SITE \o "/home/", SITE \o "/films",
      " " \o SITE \o "/work/ ", SITE \o "/finland", "https://example.com/about",
      "sitemap" }

RECURSIVE LocLists(_)
LocLists(n) ==
    IF n = 0 THEN {<<>>}
    ELSE {Append(l, u) : l \in LocLists(n - 1), u \in Locs}

\* the outcomes of the sitemap fetch, over every sitemap of up to MaxLocs
\* entries
Sitemaps ==
    { [kind |-> "throw"], [kind |-> "status", ok |-> FALSE, status |-> 404] }
    \cup { [kind |-> "status", ok |-> TRUE, status |-> 200, locs |-> l] :
             l \in UNION {LocLists(n) : n \in 0..MaxLocs} }

\* values of MAX_PAGES: the one of this model, and one that, like the
\* source's 120, leaves room for the fallback pages and one more
PageCaps == {MAX_PAGES, Len(FallbackPaths) + 1}

\* getSitemapUrls is about to continue after its sitemap fetch
InitSitemapUrls ==
    /\ InitServer
    /\ call \in {[fn |-> "getSitemapUrls", args |-> <<out, cap>>, ret |-> FALSE, out |-> <<>>] :
                    out \in Sitemaps, cap \in PageCaps}

\* getSitemapUrls returns
SitemapUrlsReturns ==
    /\ call.fn = "getSitemapUrls" /\ ~call.ret
    /\ call' = [call EXCEPT !.ret = TRUE, !.out = sitemapUrlsUpTo(call.args[1], call.args[2])]
    /\ UNCHANGED server

NextSitemapUrls == SitemapUrlsReturns

SpecSitemapUrls == InitSitemapUrls /\ [][NextSitemapUrls]_vars

\* getSitemapUrls of both server files is about to continue after the same
\* sitemap fetch
InitBothSitemapUrls ==
    /\ InitServer
    /\ call \in {[fn |-> "getSitemapUrls, both files", args |-> <<out, cap>>,
                  ret |-> FALSE, out |-> <<>>] :
                    out \in Sitemaps, cap \in PageCaps}

\* both return: out[1] is the list of part_000, out[2] the one of
\* chatbot-server.prev.js
BothSitemapUrlsReturn ==
    /\ call.fn = "getSitemapUrls, both files" /\ ~call.ret
    /\ call' = [call EXCEPT
                  !.ret = TRUE,
                  !.out = <<sitemapUrlsUpTo(call.args[1], call.args[2]),
                            sitemapUrlsUpToPrev(call.args[1], call.args[2])>>]
    /\ UNCHANGED server

NextBothSitemapUrls == BothSitemapUrlsReturn

SpecBothSitemapUrls == InitBothSitemapUrls /\ [][NextBothSitemapUrls]_vars

\* number of chunks of a knowledge base retrieveContext is applied to
MaxKbLen == 6

RECURSIVE TextLists(_)
TextLists(n) ==
    IF n = 0 THEN {<<>>}
    ELSE {Append(l, t) : l \in TextLists(n - 1), t \in SiteChunks}

\* a knowledge base as a crawl leaves it: identifiers from 0, one short URL
\* per chunk, the chunks embedded or not yet
KbOf(texts, embedded) ==
    [j \in 1..Len(texts) |->
        [id |-> j - 1, url |-> "p" \o CharAt("0123456789", j), lang |-> "en",
         chunk |-> texts[j],
         vec |-> IF embedded THEN embedOf[texts[j]] ELSE NoVec]]

KnowledgeBases ==
    {KbOf(l, e) : l \in UNION {TextLists(n) : n \in 0..MaxKbLen}, e \in BOOLEAN}

\* retrieveContext(msg) is about to continue after its embedding request,
\* KB being kb with the tables crawl() builds over it
InitRetrieveContext ==
    /\ InitServer
    /\ call \in {[fn |-> "retrieveContext", args |-> <<kb, msg>>, ret |-> FALSE, out |-> ""] :
                    kb \in KnowledgeBases, msg \in Messages \ {""}}

\* retrieveContext returns
RetrieveContextReturns ==
    /\ call.fn = "retrieveContext" /\ ~call.ret
    /\ LET kb  == call.args[1]
           ctf == setChunkTf(EmptyMap, kb, 1)
           idf == setVocabIdf(EmptyMap, kb)
       IN call' = [call EXCEPT
                     !.ret = TRUE,
                     !.out = IF Len(kb) = 0 THEN ""
                             ELSE contextLoop(topK(rankedFor(call.args[2], kb, ctf, idf)),
                                              1, "")]
    /\ UNCHANGED server

NextRetrieveContext == RetrieveContextReturns

SpecRetrieveContext == InitRetrieveContext /\ [][NextRetrieveContext]_vars

\* largest frequency of a term in a chunk, and largest number of chunks the
\* idf values are taken from
MaxTf == 3
MaxDocs == 2

\* the string w, k times
RECURSIVE Repeated(_, _)
Repeated(w, k) == IF k = 0 THEN "" ELSE w \o Repeated(w, k - 1)

\* chunk texts with the words "ab" and "cd", each up to n times
ChunkTextsUpTo(n) == {Repeated("ab ", i) \o Repeated("cd ", j) : i, j \in 0..n}
ChunkTexts == ChunkTextsUpTo(MaxTf)

\* termFreq, tabulated over these texts and those with one more occurrence
tfOfText == [text \in ChunkTextsUpTo(MaxTf + 1) |-> termFreq(text)]

\* the messages whose terms the chunks are scored for
Queries == {"", "ab", "cd", "ab cd", "cd, AB ab"}

\* the values Math.log((N + 1) / (dfVal + 0.5)) takes with up to MaxDocs
\* chunks, dfVal of them having the term
IdfValues == UNION {{idfOf(N, dfVal) : dfVal \in 1..N} : N \in 1..MaxDocs}

\* VOCAB_IDF with some of the words
IdfMaps == UNION {[S -> IdfValues] : S \in SUBSET {"ab", "cd"}}

\* a chunk with identifier 0, and CHUNK_TF with its entry or without it
ChunkOf(text) == [id |-> 0, url |-> SITE, lang |-> "en", chunk |-> text, vec |-> NoVec]
ChunkTfs(text) == {EmptyMap, MapSet(EmptyMap, 0, tfOfText[text])}

\* the calls that compute sparse for a chunk with the given text
SparseCalls(text) ==
    {[fn |-> "sparse", args |-> <<ChunkOf(text), unique(tokenize(msg)), ctf, idf>>,
      ret |-> FALSE, out |-> 0] :
        msg \in Queries, ctf \in ChunkTfs(text), idf \in IdfMaps}

\* the loop body of retrieveContext is about to compute sparse for chunk d
InitSparse ==
    /\ InitServer
    /\ call \in UNION {SparseCalls(text) : text \in ChunkTexts}

\* sparse has its value
SparseReturns ==
    /\ call.fn = "sparse" /\ ~call.ret
    /\ call' = [call EXCEPT
                  !.ret = TRUE,
                  !.out = sparseIn(call.args[1], call.args[2], call.args[3], call.args[4])]
    /\ UNCHANGED server

NextSparse == SparseReturns

SpecSparse == InitSparse /\ [][NextSparse]_vars

(* -------------------------------- claims ------------------------------- *)

Reindexing == Running \ {Main} # {}

\* the step in which chat q's retrieveContext scans KB
Scans(q) == query[q].pc = "embedding" /\ query'[q].pc = "generating"

\* the first k entries of a ranked list, as the context shows them
RECURSIVE Rendered(_, _)
Rendered(top, k) ==
    IF k = 0 THEN ""
    ELSE Rendered(top, k - 1)
         \o "[Source] " \o top[k].d.url \o "\n" \o top[k].d.chunk \o "\n\n"

\* the candidates of chat q, and how many of them its context shows
Candidates(q) == SubSeq(query[q].scored, 1, Min(TOP_K, Len(query[q].scored)))
ShownBy(q) == {k \in 0..Len(Candidates(q)) : query[q].ctx = Rendered(Candidates(q), k)}

\* C1: a query that scans the knowledge base while a crawl started by
\* /reindex is running never reads chunks with empty lexical tables.
C1_ScanNeverSeesChunksWithoutTables ==
    [][\A q \in Chats :
         (Scans(q) /\ Reindexing)
            => ~(Len(KB) > 0 /\ (DOMAIN CHUNK_TF = {} \/ DOMAIN VOCAB_IDF = {}))]_vars

\* C2: as long as a crawl started by /reindex is still running after a
\* step, the step has left the chunks, vectors and lexical tables of the
\* live generation as they were.
C2_LiveGenerationKeptDuringRebuild ==
    [][(\E c \in Crawls \ {Main} : crawl'[c].pc \in {"sitemap", "fetch", "embed"})
          => UNCHANGED <<KB, VOCAB_IDF, CHUNK_TF>>]_vars

\* C3: at most one crawl() is running.
C3_AtMostOneCrawl == Cardinality(Running) <= 1

\* C4: while the server answers requests and no crawl has failed, the
\* knowledge base never has lexical statistics with only some of its chunks
\* embedded.
C4_NeverPartlyEmbedded ==
    (listening /\ \A c \in Crawls : crawl[c].pc # "failed")
       => ~(kbStatus.vocab > 0 /\ kbStatus.embedded > 0
            /\ kbStatus.embedded < kbStatus.chunks)

\* C5: the crawl main() starts began with an empty knowledge base; when its
\* embedding call throws (and no other crawl was started), the knowledge
\* base is the one from before it began.
C5_FailedCrawlLeavesPriorGeneration ==
    (crawl[Main].pc = "failed" /\ Started = 1)
       => (KB = <<>> /\ VOCAB_IDF = EmptyMap /\ CHUNK_TF = EmptyMap)

\* no crawl between the arrival of chat q and now
Undisturbed(q) == Running = {} /\ query[q].epoch = Started

\* C6: with no crawl interleaved, the chunks a context shows are in
\* non-increasing score order, equal scores in ascending identifier order.
C6_ContextRankedWithIdTieBreak ==
    \A q \in Chats :
      (query[q].pc = "generating" /\ Undisturbed(q)) =>
         \A k \in ShownBy(q) : \A i \in 1..k : \A j \in (i + 1)..k :
            LET a == Candidates(q)[i]
                b == Candidates(q)[j]
            IN /\ a.score >= b.score
               /\ a.score = b.score => a.d.id <= b.d.id

\* C7: the context string is never longer than MAX_CONTEXT.
C7_ContextWithinBudget == \A q \in Chats : Len(query[q].ctx) <= MAX_CONTEXT

C9_RetrievalIsReadOnly ==
    [][(\E q \in Chats : query[q].pc \in {"idle", "done", "embedding"}
                            /\ query'[q] # query[q])
          => UNCHANGED <<KB, VOCAB_IDF, CHUNK_TF>>]_vars

\* a retrieveContext that has scanned a knowledge base with chunks
C9_Witness ==
    \E q \in Chats :
      query[q].pc = "generating" /\ query[q].scored # <<>> /\ Len(KB) > 0

\* C10: identifiers increase strictly along KB, and CHUNK_TF, once built,
\* holds under each identifier the term frequencies of that chunk's text.
C10_IdentifiersSelectOneChunk ==
    /\ \A i \in 1..Len(KB) : \A j \in (i + 1)..Len(KB) : KB[i].id < KB[j].id
    /\ \A i \in 1..Len(KB) :
         KB[i].id \in DOMAIN CHUNK_TF => CHUNK_TF[KB[i].id] = termFreq(KB[i].chunk)

\* C11: every chunk that has a vector has the vector the embedding service
\* returns for that chunk's own text.
C11_VectorsBelongToTheirChunks ==
    \A j \in 1..Len(KB) : KB[j].vec # NoVec => KB[j].vec = embedOf[KB[j].chunk]

\* C12: when the embedding call for the batch at `start` throws, the chunks
\* the crawl sent are the chunks of KB, those before `start` have their own
\* vectors, those from `start` on have none, and the chunks and the lexical
\* tables are left as they are.
C12_FailedBatchKeepsEarlierVectors ==
    [][\A c \in Crawls :
         EmbedThrows(c) =>
            /\ UNCHANGED <<KB, VOCAB_IDF, CHUNK_TF>>
            /\ [j \in 1..Len(KB) |-> KB[j].chunk] = crawl[c].texts
            /\ \A j \in 1..Len(KB) :
                  /\ j <= crawl[c].start => KB[j].vec = embedOf[KB[j].chunk]
                  /\ j > crawl[c].start => KB[j].vec = NoVec
            /\ \A j \in 1..Len(KB) : KB[j].id \in DOMAIN CHUNK_TF]_vars

\* a fetch that throws, answers with a non-success status, or yields a
\* document shorter than MIN_DOC_CHARS
FailedPage(out) ==
    \/ out.kind = "throw"
    \/ ~out.ok
    \/ Len(pageDoc(out.page)) < MIN_DOC_CHARS

\* C13: the step of a crawl that handles a failed page adds no chunk and
\* does not fail the crawl: the crawl goes on to its next URL or, after the
\* last one, indexes every chunk of the knowledge base and sends them all to
\* the embedding service.
C13_FailedPageIsSkipped ==
    [][\A c \in Crawls :
         crawl[c].pc = "fetch" =>
           \A out \in FetchOutcomes(crawl[c].urls[crawl[c].i]) :
             (FailedPage(out) /\ PageReturnsWith(c, out)) =>
                /\ KB' = KB
                /\ IF crawl[c].i < Len(crawl[c].urls)
                   THEN /\ crawl'[c].pc = "fetch"
                        /\ crawl'[c].i = crawl[c].i + 1
                   ELSE /\ \A j \in 1..Len(KB) :
                             /\ KB[j].id \in DOMAIN CHUNK_TF'
                             /\ Range(unique(tokenize(KB[j].chunk))) \subseteq DOMAIN VOCAB_IDF'
                        /\ IF Len(KB) = 0
                           THEN crawl'[c].pc = "done"
                           ELSE /\ crawl'[c].pc = "embed"
                                /\ crawl'[c].texts = [j \in 1..Len(KB) |-> KB[j].chunk]]_vars

\* the startup crawl has completed with one page skipped: every chunk is
\* of the other page, indexed and embedded
C13_Witness ==
    /\ crawl[Main].pc = "done" /\ Started = 1
    /\ Len(KB) > 0
    /\ \A j \in 1..Len(KB) :
         /\ KB[j].url = SITE \o "/home"
         /\ KB[j].vec # NoVec
         /\ KB[j].id \in DOMAIN CHUNK_TF

\* the terms of a chunk
TermsIn(chunk) == Range(unique(tokenize(chunk)))

\* the lexical tables ctf and idf are those of the chunks kb and of nothing
\* else
TablesCover(kb, ctf, idf) ==
    /\ DOMAIN ctf = {kb[j].id : j \in 1..Len(kb)}
    /\ DOMAIN idf = UNION {TermsIn(kb[j].chunk) : j \in 1..Len(kb)}
    /\ \A t \in DOMAIN idf :
         idf[t] = idfOf(Len(kb),
                        Cardinality({j \in 1..Len(kb) : t \in TermsIn(kb[j].chunk)}))

\* C14: in the state a crawl completes in, CHUNK_TF has an entry for the
\* identifiers of KB and no other, VOCAB_IDF has the terms of the chunks of
\* KB and no other, and each idf is that of the term's document frequency
\* among the N = Len(KB) chunks.
C14_TablesCoverKBWhenCrawlCompletes ==
    [][\A c \in Crawls :
         (c \in Running /\ crawl'[c].pc = "done")
            => TablesCover(KB', CHUNK_TF', VOCAB_IDF')]_vars

RECURSIVE Concat(_)
Concat(seq) == IF seq = <<>> THEN "" ELSE Head(seq) \o Concat(Tail(seq))

\* C15: the chunks chunkText(s, n) returns concatenate to s, each has
\* between 1 and n characters, and there are ceil(Len(s) / n) of them.
C15_ChunksPartitionTheText ==
    (call.fn = "chunkText" /\ call.ret) =>
       LET s == call.args[1]
           n == call.args[2]
       IN /\ Concat(call.out) = s
          /\ \A i \in 1..Len(call.out) : Len(call.out[i]) >= 1 /\ Len(call.out[i]) <= n
          /\ Len(call.out) = (Len(s) + n - 1) \div n

\* chunkText has returned several chunks, the last one shorter than n
C15_Witness ==
    /\ call.fn = "chunkText" /\ call.ret
    /\ Len(call.out) >= 2
    /\ Len(call.out[Len(call.out)]) < call.args[2]
    /\ Len(call.out[1]) = call.args[2]

\* C16: a POST /chat with a message that finds KB empty goes straight to the
\* completion request, with the empty context and the "(none yet)" line and
\* without an embedding request or a scan; the step after it is the reply
\* with what the completion call gave.
C16_EmptyKBStillGenerates ==
    [][\A q \in Chats :
         /\ \A body \in Bodies :
              (messageOf(body) # "" /\ Len(KB) = 0 /\ ChatWith(q, body)) =>
                 /\ query'[q].pc = "generating"
                 /\ query'[q].ctx = ""
                 /\ query'[q].scored = <<>>
                 /\ query'[q].knowledge = "Knowledge: (none yet)"
         /\ (query[q].pc = "generating" /\ query'[q] # query[q]) =>
              (query'[q].pc = "done" /\ query'[q].reply \in {"answer", "Error"})]_vars

\* a chat that found KB empty has been answered by the completion service
C16_Witness ==
    \E q \in Chats :
      /\ query[q].pc = "done" /\ query[q].reply = "answer"
      /\ \A c \in Crawls \ {Main} : crawl[c].pc = "idle"
      /\ crawl[Main].pc = "done" /\ Len(KB) = 0

\* the fallback pages
FallbackUrls == {stripTrailingSlashes(SITE \o FallbackPaths[k]) : k \in 1..Len(FallbackPaths)}

\* u is the /fi or /sv page or below one of them
UnderLanguagePrefix(u) ==
    \E p \in {"/fi", "/sv"} : Pathname(u) = p \/ StartsWith(Pathname(u), p \o "/")

\* the list has no duplicates, at most the MAX_PAGES entries, and no page
\* under /fi or /sv
CappedEnglishList(list, maxPages) ==
    /\ \A i \in 1..Len(list) : \A j \in (i + 1)..Len(list) : list[i] # list[j]
    /\ Len(list) <= maxPages
    /\ \A i \in 1..Len(list) : ~UnderLanguagePrefix(list[i])

\* C17 as stated: with MAX_PAGES no smaller than the number of fallback
\* pages, the list getSitemapUrls returns has no duplicates, at most
\* MAX_PAGES entries, no page under /fi or /sv, and every fallback page.
C17_UrlListHasEveryFallback ==
    (call.fn = "getSitemapUrls" /\ call.ret /\ call.args[2] >= Len(FallbackPaths)) =>
       /\ CappedEnglishList(call.out, call.args[2])
       /\ FallbackUrls \subseteq Range(call.out)

\* C17, amended: the list getSitemapUrls returns has no duplicates, at most
\* MAX_PAGES entries and no page under /fi or /sv; each entry is a fallback
\* page or a page of the site that the sitemap lists; and the list has every
\* fallback page unless it is MAX_PAGES long.
C17_UrlListCappedAfterFallbacks ==
    (call.fn = "getSitemapUrls" /\ call.ret) =>
       /\ CappedEnglishList(call.out, call.args[2])
       /\ Len(call.out) < call.args[2] => FallbackUrls \subseteq Range(call.out)
       /\ \A i \in 1..Len(call.out) :
             \/ call.out[i] \in FallbackUrls
             \/ /\ call.args[1].kind = "status" /\ call.args[1].ok
                /\ StartsWith(call.out[i], SITE)
                /\ \E k \in 1..Len(call.args[1].locs) :
                      stripTrailingSlashes(trim(call.args[1].locs[k])) = call.out[i]

\* a sitemap with an other-language page and enough pages of its own that
\* the cap, though above the number of fallback pages, cuts a fallback page
C17_Witness ==
    /\ call.fn = "getSitemapUrls" /\ call.ret
    /\ call.args[2] >= Len(FallbackPaths)
    /\ call.args[1].kind = "status" /\ call.args[1].ok
    /\ \E k \in 1..Len(call.args[1].locs) : UnderLanguagePrefix(call.args[1].locs[k])
    /\ FallbackUrls \ Range(call.out) # {}

\* C18: once the startup crawl has ended, failed or not, the server listens
\* and goes on listening; a crawl that fails disturbs no request and no
\* other crawl; a chat whose embedding or completion call fails is replied
\* to; and a listening server takes the next POST /chat and the next
\* POST /reindex whatever has failed before.
C18_FailuresLeaveServerServing ==
    /\ [](crawl[Main].pc \in {"done", "failed"} => listening)
    /\ [](listening =>
            /\ \A q \in Chats : query[q].pc \in {"idle", "done"} => ENABLED Chat(q)
            /\ \A c \in Crawls \ {Main} :
                  (crawl[c].pc = "idle" /\ \A b \in 1..(c - 1) : crawl[b].pc # "idle")
                     => ENABLED Reindex(c))
    /\ [][/\ listening => listening'
          /\ \A c \in Crawls :
               (c \in Running /\ crawl'[c].pc = "failed") =>
                  /\ listening'
                  /\ UNCHANGED query
                  /\ \A b \in Crawls \ {c} : crawl'[b] = crawl[b]
          /\ \A q \in Chats :
               (query[q].pc \in {"embedding", "generating"} /\ query'[q] # query[q]) =>
                  \/ query'[q].pc = "generating"
                  \/ query'[q].pc = "done" /\ query'[q].reply # ""]_vars

\* the startup crawl and a crawl started by /reindex have failed, a chat
\* has been answered with the error of its call, and the server is running
\* the next crawl
C18_Witness ==
    /\ crawl[Main].pc = "failed"
    /\ \E c \in Crawls \ {Main} : crawl[c].pc = "failed"
    /\ \E c \in Crawls \ {Main} : c \in Running
    /\ \E q \in Chats : query[q].pc = "done" /\ query[q].reply = "Error"
    /\ listening

\* C19: a POST /chat whose body has no message or an empty one is replied
\* to with "Please type a message." in the step it arrives in: no embedding
\* request, no scored list or context, no completion request.
C19_EmptyMessageIsPrompted ==
    [][\A q \in Chats : \A body \in Bodies :
         (messageOf(body) = "" /\ ChatWith(q, body)) =>
            /\ query'[q].pc = "done"
            /\ query'[q].reply = "Please type a message."
            /\ query'[q].scored = <<>>
            /\ query'[q].ctx = ""
            /\ query'[q].knowledge = ""
            /\ UNCHANGED <<KB, VOCAB_IDF, CHUNK_TF, crawl>>]_vars

\* the prompt has been given by a server whose knowledge base has chunks
C19_Witness ==
    \E q \in Chats :
      /\ query[q].pc = "done"
      /\ query[q].reply = "Please type a message."
      /\ Len(KB) > 0

\* the string e occurs in the string ctx
Occurs(e, ctx) == \E i \in 1..(Len(ctx) - Len(e) + 1) : SubSeq(ctx, i, i + Len(e) - 1) = e

\* the positions in kb of the chunks whose entry the context ctx shows (in
\* the knowledge bases of KnowledgeBases every chunk has a URL of its own)
Emitted(kb, ctx) == {j \in 1..Len(kb) : Occurs(sourceEntry(kb[j]), ctx)}

\* the combined score of chunk j of kb for the message msg, with the tables
\* of kb
ScoreIn(kb, msg, j) ==
    scoreOf(kb[j], embedOf[msg], termsOf[msg],
            setChunkTf(EmptyMap, kb, 1), setVocabIdf(EmptyMap, kb))

RECURSIVE SumLen(_, _)
SumLen(kb, js) ==
    IF js = {} THEN 0
    ELSE LET j == CHOOSE x \in js : TRUE
         IN Len(sourceEntry(kb[j])) + SumLen(kb, js \ {j})

\* C20: the context retrieveContext returns is made of the entries of at
\* most TOP_K chunks and of nothing else; each of these chunks has a
\* positive combined score, and fewer than TOP_K chunks score higher than it.
C20_ContextShowsTopPositiveChunks ==
    (call.fn = "retrieveContext" /\ call.ret) =>
       LET kb   == call.args[1]
           msg  == call.args[2]
           show == Emitted(kb, call.out)
       IN /\ Cardinality(show) <= TOP_K
          /\ Len(call.out) = SumLen(kb, show)
          /\ \A j \in show :
                /\ ScoreIn(kb, msg, j) > 0
                /\ Cardinality({i \in 1..Len(kb) : ScoreIn(kb, msg, i) > ScoreIn(kb, msg, j)})
                      < TOP_K

\* a context of TOP_K chunks from a knowledge base with more chunks of
\* positive score than that, and with a chunk whose score is not positive
C20_Witness ==
    /\ call.fn = "retrieveContext" /\ call.ret
    /\ LET kb  == call.args[1]
           msg == call.args[2]
       IN /\ Cardinality(Emitted(kb, call.out)) = TOP_K
          /\ Cardinality({i \in 1..Len(kb) : ScoreIn(kb, msg, i) > 0}) > TOP_K
          /\ \E i \in 1..Len(kb) : ScoreIn(kb, msg, i) <= 0

\* a/b < c/d for b, d > 0 and a, c >= 0, by the integer parts and then the
\* remainders
RECURSIVE LessBy(_, _, _, _)
LessBy(a, b, c, d) ==
    IF a \div b # c \div d THEN a \div b < c \div d
    ELSE IF c % d = 0 THEN FALSE
    ELSE IF a % b = 0 THEN TRUE
    ELSE LessBy(d, c % d, b, a % b)

\* x < y, x <= y and x - y for fractions x >= 0, y >= 0
FracLess(x, y) == LessBy(x.num, x.den, y.num, y.den)
FracLeq(x, y) == ~FracLess(y, x)
FracSub(x, y) == [num |-> x.num * y.den - y.num * x.den, den |-> x.den * y.den]

\* C21: a chunk with none of the query's terms gets sparse = 0; for a
\* term with positive idf the contribution idf*1.2*tf/(1.25+tf) does not
\* decrease from tf to tf+1, and from tf >= 1 on that increase is strictly
\* smaller than the one from tf-1 to tf; the sum over the terms does not
\* decrease when the chunk has one more occurrence of a word.
C21_SparseIsZeroWithoutTermsAndSaturates ==
    (call.fn = "sparse" /\ call.ret) =>
       LET d     == call.args[1]
           terms == call.args[2]
           idf   == call.args[4]
           tf    == tfOfText[d.chunk]
       IN /\ Range(terms) \cap DOMAIN tf = {} => call.out = 0
          /\ \A i \in 1..Len(terms) :
                LET w == MapGet(idf, terms[i], 0)
                    f == MapGet(tf, terms[i], 0)
                IN w > 0 =>
                     /\ FracLeq(termContribution(w, f), termContribution(w, f + 1))
                     /\ f >= 1 =>
                           /\ FracLeq(termContribution(w, f - 1), termContribution(w, f))
                           /\ FracLess(FracSub(termContribution(w, f + 1), termContribution(w, f)),
                                       FracSub(termContribution(w, f), termContribution(w, f - 1)))
          /\ \A more \in {"ab " \o d.chunk, d.chunk \o "cd "} :
                LET ctf == IF 0 \in DOMAIN call.args[3]
                           THEN MapSet(EmptyMap, 0, tfOfText[more]) ELSE EmptyMap
                IN sparseIn(ChunkOf(more), terms, ctf, idf) >= call.out

\* sparse computed for a chunk that has one of the query's two terms several
\* times and the other not at all, both with a positive idf
C21_Witness ==
    /\ call.fn = "sparse" /\ call.ret
    /\ call.out > 0
    /\ Len(call.args[2]) = 2
    /\ DOMAIN call.args[4] = Range(call.args[2])
    /\ \E t \in Range(call.args[2]) : t \notin DOMAIN tfOfText[call.args[1].chunk]
    /\ \E t \in Range(call.args[2]) :
          t \in DOMAIN tfOfText[call.args[1].chunk] /\ tfOfText[call.args[1].chunk][t] >= 3

\* C22: for the same sitemap fetch, getSitemapUrls of part_000 and of
\* chatbot-server.prev.js return the same URL list.
C22_BothServersListTheSameUrls ==
    (call.fn = "getSitemapUrls, both files" /\ call.ret) => call.out[1] = call.out[2]

\* C23: whenever a crawl is suspended at a page fetch or at an embedding
\* call, CHUNK_TF and VOCAB_IDF are both empty or are both complete for the
\* chunks of KB.
C23_TablesEmptyOrCompleteAtSuspension ==
    \A c \in Crawls :
      crawl[c].pc \in {"fetch", "embed"} =>
         \/ CHUNK_TF = EmptyMap /\ VOCAB_IDF = EmptyMap
         \/ TablesCover(KB, CHUNK_TF, VOCAB_IDF)

\* crawl c is the last crawl started and no other crawl ran during it: the
\* startup crawl (the server does not listen before it ends), or the crawl
\* of the first POST /reindex while there has been no second one
RanAlone(c) == c \in {Main, Main + 1} /\ Started = c + 1

\* C24: after a crawl that ran without an overlapping crawl has returned,
\* every chunk of KB has a vector and a CHUNK_TF entry, /kb-status reports
\* embedded = chunks, and vocab > 0 whenever chunks > 0.
C24_CompletedCrawlIsFullyEmbedded ==
    \A c \in Crawls :
      (crawl[c].pc = "done" /\ RanAlone(c)) =>
         /\ \A j \in 1..Len(KB) : KB[j].vec # NoVec /\ KB[j].id \in DOMAIN CHUNK_TF
         /\ kbStatus.embedded = kbStatus.chunks
         /\ kbStatus.chunks > 0 => kbStatus.vocab > 0

\* the crawl of a POST /reindex has returned after embedding the chunks of
\* both pages in several batches, the startup crawl having failed
C24_Witness ==
    /\ crawl[Main].pc = "failed"
    /\ crawl[Main + 1].pc = "done" /\ RanAlone(Main + 1)
    /\ kbStatus.chunks > BATCH_EMBED
    /\ kbStatus.embedded = kbStatus.chunks
    /\ Cardinality({KB[j].url : j \in 1..Len(KB)}) = MAX_PAGES

\* C25: while the startup crawl is in progress the server does not listen,
\* takes no POST /chat and no POST /reindex, has served no chat and started
\* no other crawl; every step then is a step of the startup crawl alone;
\* and the server starts listening in the step that ends the startup crawl,
\* returned or failed.
C25_NoRequestDuringStartupCrawl ==
    /\ [](Main \in Running =>
            /\ ~listening
            /\ \A q \in Chats : query[q] = NoChat /\ ~ENABLED Chat(q)
            /\ \A c \in Crawls \ {Main} : crawl[c].pc = "idle" /\ ~ENABLED Reindex(c))
    /\ [][/\ Main \in Running =>
               /\ UNCHANGED query
               /\ \A c \in Crawls \ {Main} : crawl'[c] = crawl[c]
               /\ crawl'[Main] # crawl[Main]
          /\ (~listening /\ listening') =>
               (Main \in Running /\ crawl'[Main].pc \in {"done", "failed"})]_vars

\* the startup crawl, with the chunks of both pages in KB, waits for its
\* second embedding batch and the server is not listening yet
C25_Witness ==
    /\ crawl[Main].pc = "embed" /\ crawl[Main].start > 0
    /\ Len(KB) > BATCH_EMBED
    /\ ~listening

\* ceil(n / BATCH_EMBED)
BatchesOf(n) == (n + BATCH_EMBED - 1) \div BATCH_EMBED

\* what a step does to the loops of crawl c: the page loop goes through a
\* list of at most MAX_PAGES distinct URLs one position at a time and is left
\* at the last one; the batches are sent from `start` 0 upwards, BATCH_EMBED
\* further each time, over the same texts, and embedAllChunks returns when
\* it has sent ceil(texts.length / BATCH_EMBED) of them
LoopsAdvance(c) ==
    LET r == crawl[c]
        n == crawl'[c]
    IN /\ (r.pc = "sitemap" /\ n.pc = "fetch") =>
             /\ n.i = 1 /\ Len(n.urls) <= MAX_PAGES
             /\ \A i \in 1..Len(n.urls) : \A j \in (i + 1)..Len(n.urls) : n.urls[i] # n.urls[j]
       /\ (r.pc = "fetch" /\ n.pc = "fetch" /\ n # r) =>
             n.urls = r.urls /\ n.i = r.i + 1 /\ n.i <= Len(r.urls)
       /\ (r.pc = "fetch" /\ n.pc # "fetch") => r.i = Len(r.urls)
       /\ (r.pc \in {"sitemap", "fetch"} /\ n.pc = "embed") =>
             /\ n.start = 0
             /\ n.texts = [j \in 1..Len(KB') |-> KB'[j].chunk]
       /\ (r.pc \in {"sitemap", "fetch"} /\ n.pc = "done") => BatchesOf(Len(KB')) = 0
       /\ (r.pc = "embed" /\ n.pc = "embed" /\ n # r) =>
             n.texts = r.texts /\ n.start = r.start + BATCH_EMBED /\ n.start < Len(r.texts)
       /\ (r.pc = "embed" /\ n.pc = "done") =>
             /\ r.start % BATCH_EMBED = 0
             /\ r.start \div BATCH_EMBED + 1 = BatchesOf(Len(r.texts))
       /\ r.pc \in {"done", "failed"} => n = r

\* C26: if every external call eventually returns or fails, every crawl
\* that runs eventually ends, done or failed; its page loop visits each of its
\* at most MAX_PAGES URLs once, and embedAllChunks returns after exactly
\* ceil(chunkCount / BATCH_EMBED) embedding calls sent in increasing batch
\* order.
C26_EveryCrawlEnds ==
    /\ \A c \in Crawls : (c \in Running) ~> (crawl[c].pc \in {"done", "failed"})
    /\ [][\A c \in Crawls : LoopsAdvance(c)]_vars

\* every crawl was started and has ended, one returned and one failed, the
\* knowledge base holding the embedded chunks of several batches
C26_Witness ==
    /\ \A c \in Crawls : crawl[c].pc \in {"done", "failed"}
    /\ \E c \in Crawls : crawl[c].pc = "done"
    /\ \E c \in Crawls : crawl[c].pc = "failed"
    /\ Len(KB) > BATCH_EMBED
    /\ \A j \in 1..Len(KB) : KB[j].vec # NoVec

====
